---- MODULE Spec2Model ----
(***************************************************************************)
(* Model of MonitoringApp.py: the button handler get_mode (a callback of   *)
(* the button's press edge, run on the callback thread) and the sampling   *)
(* loop run_mode with sonic (run on the main thread), which share the      *)
(* global `mode`.                                                          *)
(*                                                                         *)
(* Times are integers in microseconds.  Program counters carry the line    *)
(* number of the statement that is executed next ("h415" is line 415 of    *)
(* get_mode, "r524" line 524 of run_mode, "s171" line 171 of sonic).       *)
(*                                                                         *)
(* Two specifications share the state: SpecG runs get_mode against the     *)
(* button and the clock; Spec runs main/run_mode/sonic against the clock,  *)
(* the echo line, the operator's interrupt and the writes of get_mode to   *)
(* mode.                                                                   *)
(***************************************************************************)
EXTENDS Integers, Sequences, FiniteSets, TLC

\* ------------------------------------------------------------ constants
\* Time to double-click for RDM and time to hold for ORD (seconds in the
\* source, microseconds here).
RDM_TIME == 1000000
ORD_TIME == 2000000

\* Offsets to maintain proper timing (seconds in the source, microseconds here).
SONIC_OFFSET == 88000
POT_OFFSET == 492000

\* Interval for beep on/off (seconds in the source, microseconds here).
BEEP_INTERVAL == 500000

\* Min and max for distance (cm in the source, 1/100 cm here) and buzzer sounds.
MIN_DIST == 400
MAX_DIST == 2000
MIN_FREQ == 100
MAX_FREQ == 2000

\* Buzzer setting
DUTY_CYCLE == 10

\* Rate to convert ultrasonic reading to distance in cm
ULTRASONIC_CONVERSION == 79

\* "If the distance is more than a meter, ignore it." (line 620; 1/100 cm)
MAX_RECORDED_DIST == 10000

\* Mode numbers
MS_MODE == 1
RDM_MODE == 2
ORD_MODE == 3

Modes == {MS_MODE, RDM_MODE, ORD_MODE}

\* ------------------------------------------------------------ bounds
\* time.time() when the program starts.
StartUs == 1000000
\* Step of the clock.
TickUs == 500000
\* The clock of the gesture model stops here.
MaxTime == 4500000
\* The clock of the loop model stops here.
MaxLoopTime == 1500000
\* Changes of mode made by get_mode in one run of the loop model.
MaxModeWrites == 2
\* Operator interrupts delivered in one run.
MaxInterrupts == 1
\* Buffer size before writing the file (250 in the source, line 111).
BUFFER_SIZE == 2
\* Lengths of the echo pulse, in microseconds (790 us is 10 cm).
PulseUs == {790}
\* Readings of the potentiometer, in 1/100 percent.
PotPercents == {5000}
\* The clock of the buzzer model stops here.
MaxBeepTime == 2500000
\* Echo pulses of the buzzer model, in microseconds: 2.53 cm, 10 cm, 30 cm.
RangePulseUs == {200, 790, 2370}
\* Time from one range measurement to the next in the buzzer model, in
\* microseconds: the loop's own pace, and a measurement that took long.
RangeGapUs == {100000, 600000}
\* Longest echo pulse of the frequency model, in microseconds (25.3 cm).
MaxFreqPulseUs == 2000
\* Echo pulses of the far-reading model, in microseconds: 10 cm, 100 cm
\* exactly, 101 cm.
FarPulseUs == {790, 7900, 7979}
\* Time from one range measurement to the next in the far-reading model.
FarGapUs == 500000
\* The clock of the model of both threads stops here.
MaxBothTime == 2500000
\* Largest reading of the potentiometer in the color model, in 1/100 percent.
MaxPercent == 10000
\* Button edges logged during one invocation of get_mode.
MaxEdges == 5

VARIABLES
    \* --- shared
    now,            \* time.time(), microseconds
    mode,           \* the global mode
    regled,         \* state of the regular LED: "off", "on", "blink"
    \* --- the button and get_mode
    pressed,        \* button.is_pressed
    hpc,            \* get_mode: statement executed next, "idle" when not running
    t0,             \* get_mode: parameter/local t0 of the innermost call (-1: default)
    t1,             \* get_mode: local t1 of the innermost call (-1: not assigned)
    depth,          \* get_mode: number of nested get_mode(t1) calls below the callback
    seen,           \* the handler has polled the clock and the button since they last changed
    g_t0,           \* history: t0 of the callback's own call (-1: button not pressed on entry)
    edges,          \* history: times of the button edges since the callback's t0
    writes,         \* history: the mode-change blocks executed by this callback
    \* --- the main thread: main, run_mode, sonic
    rpc,            \* statement executed next; "exit" when the process has ended
    exc,            \* how the process ended: "none", "SystemExit", "KeyError", "UnboundLocalError"
    cleaned,        \* gpio.cleanup() has been executed
    nint,           \* operator interrupts delivered so far
    nmode,          \* changes of mode made by get_mode so far
    bound,          \* the locals of run_mode that have been assigned
    old_mode,       \* run_mode: old_mode
    monitor,        \* run_mode: monitor
    record,         \* run_mode: record
    filename,       \* run_mode: filename (the wall-clock second it is made of)
    data,           \* run_mode: data, the DataFrame buffer
    too_close,      \* run_mode: too_close
    dist_t0,        \* run_mode: dist_t0
    rgb_t0,         \* run_mode: rgb_t0
    beep_t0,        \* run_mode: beep_t0
    pot_percent,    \* run_mode: pot_percent, 1/100 percent
    freq,           \* run_mode: freq
    dtime,          \* sonic/run_mode: dtime
    distance,       \* sonic/run_mode: distance, 1/100 cm, or NaN
    s_old_mode,     \* sonic: old_mode
    pulse_start,    \* sonic: pulse_start
    pulse_end,      \* sonic: pulse_end
    pulse_duration, \* sonic: pulse_duration
    echo,           \* gpio.input(ECHO)
    rise_t,         \* when the echo line last rose (-1 while it is low)
    buzz,           \* the buzzer PWM: [on, freq]
    rgbled,         \* the color LED: its color <<R, G, B>>, each in 1/SIXTH; unlit is <<0, 0, 0>>
    disk,           \* storage: every line written, in order, with the file it went to
    sessno,         \* history: number of the current session (0 before the first)
    sessfile,       \* history: the filename of each session (NoFile until line 503)
    nrid            \* history: readings appended to a buffer so far

\* The state of the button and of get_mode.
gvars == <<pressed, hpc, t0, t1, depth, seen, g_t0, edges, writes>>

\* The state of the main thread, the devices it drives and the storage.
lvars == <<rpc, exc, cleaned, nint, nmode, bound, old_mode, monitor, record,
           filename, data, too_close, dist_t0, rgb_t0, beep_t0, pot_percent, freq,
           dtime, distance, s_old_mode, pulse_start, pulse_end, pulse_duration,
           echo, rise_t, buzz, rgbled, disk, sessno, sessfile, nrid>>

vars == <<now, mode, regled, gvars, lvars>>

\* ------------------------------------------------------------ values
\* 'NaN' and a number, as cells of the DataFrame and values of distance.
NaN == <<>>
Num(v) == <<v>>

\* None and a number, as values of freq.
None == <<>>

NoFile == -1

Range(sq) == {sq[i] : i \in DOMAIN sq}

\* n/d rounded to the nearest integer, halves away from zero (d > 0).
RoundDiv(n, d) ==
    IF n >= 0 THEN (2 * n + d) \div (2 * d) ELSE -((2 * (-n) + d) \div (2 * d))

\* strftime('%Y-%m-%d %H:%M:%S.%f')[:-3]: the time cut to milliseconds.
date_time_str(t) == t \div 1000

\* str(time.ctime()) cut to "<month><day><year>_<HH><MM><SS>.csv": the time cut
\* to seconds.
time_string(t) == t \div 1000000

\* ------------------------------------------------------------ DataFrame
COLUMNS == <<"Date and Time", "Potentiometer %", "Distance">>

\* pd.DataFrame(columns=cols); pd.DataFrame() is DataFrame(<<>>).
DataFrame(cols) == [cols |-> cols, rows |-> <<>>]

\* data[cs] raises KeyError unless every name of cs is a column of data.
HasColumns(df, cs) == Range(cs) \subseteq Range(df.cols)

\* data[cs]
Select(df, cs) ==
    [cols |-> cs,
     rows |-> [i \in DOMAIN df.rows |->
                 [df.rows[i] EXCEPT !.cells = [c \in Range(cs) |-> df.rows[i].cells[c]]]]]

\* data[data.columns[1:]]
DropFirstColumn(df) == IF df.cols = <<>> THEN df ELSE Select(df, Tail(df.cols))

\* data.reset_index(): the old index becomes the first column, "index".
ResetIndex(df) ==
    [cols |-> <<"index">> \o df.cols,
     rows |-> [i \in DOMAIN df.rows |->
                 [df.rows[i] EXCEPT !.cells =
                     [c \in Range(df.cols) \cup {"index"} |->
                         IF c = "index" THEN Num(df.rows[i].idx) ELSE df.rows[i].cells[c]]]]]

\* The key of a row in sort_values(by=[col]): NaN sorts last.
RECURSIVE Insert(_, _, _)
Insert(sorted, r, col) ==
    IF sorted = <<>> THEN <<r>>
    ELSE IF r.cells[col] /= NaN
            /\ (Head(sorted).cells[col] = NaN \/ r.cells[col][1] < Head(sorted).cells[col][1])
         THEN <<r>> \o sorted
         ELSE <<Head(sorted)>> \o Insert(Tail(sorted), r, col)

RECURSIVE SortRows(_, _)
SortRows(rows, col) ==
    IF rows = <<>> THEN <<>>
    ELSE Insert(SortRows(SubSeq(rows, 1, Len(rows) - 1), col), rows[Len(rows)], col)

\* sort_values leaving the rows in their order of arrival.
SortValues_Unsorted(df, col) == df

\* data.sort_values(by=[col], inplace=True): rows in non-decreasing order of col,
\* rows of equal col in their order of arrival.
SortValues(df, col) == [df EXCEPT !.rows = SortRows(df.rows, col)]

\* pd.concat([data, new_data], ignore_index=True, sort=False) for a one-row
\* new_data with the columns COLUMNS: the columns are data's, then the new
\* ones; a cell a frame has no column for is NaN.
Concat(df, cells, rid, sess) ==
    LET cols == df.cols \o SelectSeq(COLUMNS, LAMBDA c : c \notin Range(df.cols))
        Fill(cs, have) == [c \in Range(cols) |-> IF c \in have THEN cs[c] ELSE NaN]
    IN  [cols |-> cols,
         rows |-> [i \in DOMAIN df.rows |->
                     [df.rows[i] EXCEPT !.cells = Fill(df.rows[i].cells, Range(df.cols)),
                                        !.idx = i - 1]]
                  \o <<[rid |-> rid, sess |-> sess, idx |-> Len(df.rows),
                        cells |-> Fill(cells, Range(COLUMNS))]>>]

\* One line of a file: the header line or the cells of a row, in the order of
\* the frame's columns.
HeaderLine(f, cols) ==
    [file |-> f, hdr |-> TRUE, cols |-> cols, rid |-> 0, sess |-> 0, cells |-> <<>>]
RowLine(f, cols, r) ==
    [file |-> f, hdr |-> FALSE, cols |-> cols, rid |-> r.rid, sess |-> r.sess,
     cells |-> r.cells]

\* header.to_csv(filename, mode="a", index=False)
ToCsvHeader(dsk, f, df) == Append(dsk, HeaderLine(f, df.cols))

\* data.to_csv(filename, mode="a", index=False, header=False)
ToCsv(dsk, f, df) ==
    dsk \o [i \in DOMAIN df.rows |-> RowLine(f, df.cols, df.rows[i])]

\* ------------------------------------------------------------ pure functions
\* mode_settings(cmode): <<monitor, record>>
mode_settings(cmode) ==
    IF cmode = 1 THEN <<TRUE, FALSE>>
    ELSE IF cmode = 2 THEN <<TRUE, TRUE>>
    ELSE IF cmode = 3 THEN <<FALSE, TRUE>>
    ELSE <<FALSE, FALSE>>

\* The return of a local that no branch has assigned (UnboundLocalError): a value
\* that is neither None nor a number.
Unbound == <<-1, -1>>

\* frequency with the constants of the two ends exchanged.
frequency_Swapped(d) ==
    IF d > MAX_DIST THEN None
    ELSE IF d < MIN_DIST THEN Num(16 * MIN_FREQ)
    ELSE IF d <= MAX_DIST /\ d >= MIN_DIST
      THEN Num(16 * MIN_FREQ
               + ((d - MIN_DIST) * 16 * (MAX_FREQ - MIN_FREQ)) \div (MAX_DIST - MIN_DIST))
    ELSE Unbound

\* frequency(distance), in 1/16 Hz so that the interpolation is exact:
\* freq = MAX_FREQ - (distance - MIN_DIST)/(MAX_DIST - MIN_DIST)*(MAX_FREQ - MIN_FREQ)
\* and (MAX_FREQ - MIN_FREQ)/(MAX_DIST - MIN_DIST) is 19/16 per 1/100 cm.
\* The last branch assigns freq under a test of its own (line 217).
frequency(d) ==
    IF d > MAX_DIST THEN None
    ELSE IF d < MIN_DIST THEN Num(16 * MAX_FREQ)
    ELSE IF d <= MAX_DIST /\ d >= MIN_DIST
      THEN Num(16 * MAX_FREQ
               - ((d - MIN_DIST) * 16 * (MAX_FREQ - MIN_FREQ)) \div (MAX_DIST - MIN_DIST))
    ELSE Unbound

\* 100 * 1/6 percent, in 1/1200 percent; also the value 1 of a color channel,
\* which get_color computes as a multiple of 1/(100 * 1/6).
SIXTH == 20000

\* get_color without percent = percent * VIOLET_RATIO.
get_color_Unscaled(percent) ==
    LET s == 12 * percent
    IN  IF s <= SIXTH THEN <<SIXTH, s, 0>>
        ELSE IF SIXTH < s /\ s <= 2 * SIXTH THEN <<SIXTH - (s - SIXTH), SIXTH, 0>>
        ELSE IF 2 * SIXTH < s /\ s <= 3 * SIXTH THEN <<0, SIXTH, s - 2 * SIXTH>>
        ELSE IF 3 * SIXTH < s /\ s <= 4 * SIXTH THEN <<0, SIXTH - (s - 3 * SIXTH), SIXTH>>
        ELSE IF 4 * SIXTH < s /\ s <= 5 * SIXTH THEN <<s - 4 * SIXTH, 0, SIXTH>>
        ELSE IF s > 1000 THEN <<SIXTH, 0, SIXTH - (s - 5 * SIXTH)>>
        ELSE Unbound

\* get_color(percent) for percent in 1/100 percent: <<red, green, blue>>, each
\* in 1/SIXTH.  s is percent * VIOLET_RATIO (0.75) in 1/1200 percent; the last
\* test, percent > 5/6, is s > 1000; a percent no test accepts leaves the
\* channels unassigned.
get_color(percent) ==
    LET s == 9 * percent
    IN  IF s <= SIXTH THEN <<SIXTH, s, 0>>
        ELSE IF SIXTH < s /\ s <= 2 * SIXTH THEN <<SIXTH - (s - SIXTH), SIXTH, 0>>
        ELSE IF 2 * SIXTH < s /\ s <= 3 * SIXTH THEN <<0, SIXTH, s - 2 * SIXTH>>
        ELSE IF 3 * SIXTH < s /\ s <= 4 * SIXTH THEN <<0, SIXTH - (s - 3 * SIXTH), SIXTH>>
        ELSE IF 4 * SIXTH < s /\ s <= 5 * SIXTH THEN <<s - 4 * SIXTH, 0, SIXTH>>
        ELSE IF s > 1000 THEN <<SIXTH, 0, SIXTH - (s - 5 * SIXTH)>>
        ELSE Unbound

\* lines 545-547: int(R*255), int(G*255), int(B*255)
RGB255(c) == [i \in 1..3 |-> (c[i] * 255) \div SIXTH]

\* in_range(distance)
in_range(d) == d >= MIN_DIST /\ d <= MAX_DIST

\* The indicator get_mode sets with each mode (lines 428, 433/440/451, 457).
Indicator(m) == IF m = RDM_MODE THEN "on" ELSE IF m = ORD_MODE THEN "blink" ELSE "off"

\* ------------------------------------------------------------ get_mode
\* One mode-change block of get_mode: print the mode line and assign mode.
\* The indicator call that follows is the next statement (pc `next`).
WriteMode(m, next) ==
    /\ mode' = m
    /\ writes' = Append(writes, [t |-> now, from |-> mode, to |-> m])
    /\ hpc' = next

\* return (from every nested call: the callers return at once, lines 434-435)
Return ==
    /\ hpc' = "idle"
    /\ t0' = -1
    /\ t1' = -1
    /\ depth' = 0

\* The press edge fires the callback (line 707: button.when_pressed = get_mode).
\* The callback thread runs one callback at a time.
Press ==
    /\ ~pressed
    /\ hpc = "idle" \/ seen
    /\ hpc /= "idle" /\ g_t0 >= 0 => Len(edges) < MaxEdges
    /\ pressed' = TRUE
    /\ IF hpc = "idle"
         THEN /\ hpc' = "h407"
              /\ g_t0' = -1
              /\ edges' = <<>>
              /\ writes' = <<>>
              /\ seen' = TRUE
         ELSE /\ edges' = IF g_t0 >= 0 THEN Append(edges, now) ELSE edges
              /\ seen' = FALSE
              /\ UNCHANGED <<hpc, g_t0, writes>>
    /\ UNCHANGED <<now, mode, regled, t0, t1, depth>>
    /\ UNCHANGED lvars

Release ==
    /\ pressed
    /\ hpc = "idle" \/ seen
    /\ hpc /= "idle" /\ g_t0 >= 0 => Len(edges) < MaxEdges
    /\ pressed' = FALSE
    /\ edges' = IF hpc /= "idle" /\ g_t0 >= 0 THEN Append(edges, now) ELSE edges
    /\ seen' = (hpc = "idle")
    /\ UNCHANGED <<now, mode, regled, hpc, t0, t1, depth, g_t0, writes>>
    /\ UNCHANGED lvars

\* The next multiple of TickUs.
NextTick == ((now \div TickUs) + 1) * TickUs

\* The busy-wait loops of get_mode (lines 415, 418, 422, 444).
WaitLoops == {"h415", "h418", "h422", "h444"}

\* The clock advances.  While get_mode runs, its busy-wait loops poll faster
\* than the clock and the button change (seen: the button has been read since
\* its last change and the last tick; a loop reads it when its time test
\* succeeds), and the statements between two loops take no time on the scale
\* of TickUs.
Tick ==
    /\ hpc = "idle" \/ (seen /\ hpc \in WaitLoops)
    /\ NextTick <= StartUs + MaxTime
    /\ now' = NextTick
    /\ seen' = (hpc = "idle")
    /\ UNCHANGED <<pressed, mode, regled, hpc, t0, t1, depth, g_t0, edges, writes>>
    /\ UNCHANGED lvars

\* lines 407-410: if button.is_pressed: if t0 == -1: t0 = time.time()
H407 ==
    /\ hpc = "h407"
    /\ seen' = TRUE
    /\ IF pressed
         THEN /\ t0' = IF t0 = -1 THEN now ELSE t0
              /\ g_t0' = IF depth = 0 THEN now ELSE g_t0
              /\ hpc' = "h415"
              /\ UNCHANGED <<t1, depth>>
         ELSE /\ Return
              /\ UNCHANGED g_t0
    /\ UNCHANGED <<now, pressed, mode, regled, edges, writes>>
    /\ UNCHANGED lvars

\* H415 without the time test: the loop waits for the release only.
H415_NoTimeTest ==
    /\ hpc = "h415"
    /\ seen' = TRUE
    /\ hpc' = IF ~pressed THEN "h418" ELSE "h415"
    /\ UNCHANGED <<now, pressed, mode, regled, t0, t1, depth, g_t0, edges, writes>>
    /\ UNCHANGED lvars

\* lines 415-417: while time.time() - t0 <= RDM_TIME: if not button.is_pressed:
H415 ==
    /\ hpc = "h415"
    /\ seen' = (seen \/ now - t0 <= RDM_TIME)
    /\ hpc' = IF now - t0 <= RDM_TIME
                THEN (IF ~pressed THEN "h418" ELSE "h415")
                ELSE "h444"
    /\ UNCHANGED <<now, pressed, mode, regled, t0, t1, depth, g_t0, edges, writes>>
    /\ UNCHANGED lvars

\* lines 418-421: while time.time() - t0 <= RDM_TIME: if button.is_pressed: t1 = time.time()
H418 ==
    /\ hpc = "h418"
    /\ seen' = (seen \/ now - t0 <= RDM_TIME)
    /\ IF now - t0 <= RDM_TIME
         THEN IF pressed
                THEN hpc' = "h422" /\ t1' = now
                ELSE hpc' = "h418" /\ t1' = t1
         ELSE hpc' = "h437" /\ t1' = t1
    /\ UNCHANGED <<now, pressed, mode, regled, t0, depth, g_t0, edges, writes>>
    /\ UNCHANGED lvars

\* lines 422-423: while time.time() - t0 <= RDM_TIME: if not button.is_pressed:
H422 ==
    /\ hpc = "h422"
    /\ seen' = (seen \/ now - t0 <= RDM_TIME)
    /\ hpc' = IF now - t0 <= RDM_TIME
                THEN (IF ~pressed THEN "h425" ELSE "h422")
                ELSE "h431"
    /\ UNCHANGED <<now, pressed, mode, regled, t0, t1, depth, g_t0, edges, writes>>
    /\ UNCHANGED lvars

\* H425 with the wrong mode constant assigned.
H425_WrongMode ==
    /\ hpc = "h425"
    /\ IF mode /= MS_MODE
         THEN WriteMode(MS_MODE, "h428") /\ UNCHANGED <<t0, t1, depth>>
         ELSE Return /\ UNCHANGED <<mode, writes>>
    /\ UNCHANGED <<now, pressed, regled, seen, g_t0, edges>>
    /\ UNCHANGED lvars

\* lines 425-429: if mode != RDM_MODE: print; mode = RDM_MODE; (regled.on()); return
H425 ==
    /\ hpc = "h425"
    /\ IF mode /= RDM_MODE
         THEN WriteMode(RDM_MODE, "h428") /\ UNCHANGED <<t0, t1, depth>>
         ELSE Return /\ UNCHANGED <<mode, writes>>
    /\ UNCHANGED <<now, pressed, regled, seen, g_t0, edges>>
    /\ UNCHANGED lvars

\* line 428: regled.on(); line 429: return
H428 ==
    /\ hpc = "h428"
    /\ regled' = "on"
    /\ Return
    /\ UNCHANGED <<now, pressed, mode, seen, g_t0, edges, writes>>
    /\ UNCHANGED lvars

\* lines 431-432: print("MS mode"); mode = MS_MODE
H431 ==
    /\ hpc = "h431"
    /\ WriteMode(MS_MODE, "h433")
    /\ UNCHANGED <<now, pressed, regled, t0, t1, depth, seen, g_t0, edges>>
    /\ UNCHANGED lvars

\* line 433: regled.off()
H433 ==
    /\ hpc = "h433"
    /\ regled' = "off"
    /\ hpc' = "h434"
    /\ UNCHANGED <<now, pressed, mode, t0, t1, depth, seen, g_t0, edges, writes>>
    /\ UNCHANGED lvars

\* H434 with the nested call keeping the caller's t0.
H434_KeepT0 ==
    /\ hpc = "h434"
    /\ t0' = t0
    /\ t1' = -1
    /\ depth' = depth + 1
    /\ hpc' = "h407"
    /\ UNCHANGED <<now, pressed, mode, regled, seen, g_t0, edges, writes>>
    /\ UNCHANGED lvars

\* line 434: get_mode(t1): the nested call runs with t0 = t1; when it returns
\* the caller returns (line 435).
H434 ==
    /\ hpc = "h434"
    /\ t0' = t1
    /\ t1' = -1
    /\ depth' = depth + 1
    /\ hpc' = "h407"
    /\ UNCHANGED <<now, pressed, mode, regled, seen, g_t0, edges, writes>>
    /\ UNCHANGED lvars

\* H437 without the mode change: a single click that leaves the mode alone.
H437_NoWrite ==
    /\ hpc = "h437"
    /\ Return
    /\ UNCHANGED <<now, pressed, mode, regled, seen, g_t0, edges, writes>>
    /\ UNCHANGED lvars

\* lines 437-441: if mode != MS_MODE: print; mode = MS_MODE; (regled.off()); return
H437 ==
    /\ hpc = "h437"
    /\ IF mode /= MS_MODE
         THEN WriteMode(MS_MODE, "h440") /\ UNCHANGED <<t0, t1, depth>>
         ELSE Return /\ UNCHANGED <<mode, writes>>
    /\ UNCHANGED <<now, pressed, regled, seen, g_t0, edges>>
    /\ UNCHANGED lvars

\* line 440: regled.off(); line 441: return
H440 ==
    /\ hpc = "h440"
    /\ regled' = "off"
    /\ Return
    /\ UNCHANGED <<now, pressed, mode, seen, g_t0, edges, writes>>
    /\ UNCHANGED lvars

\* H444 waiting for RDM_TIME instead of ORD_TIME.
H444_ShortHold ==
    /\ hpc = "h444"
    /\ seen' = (seen \/ now - t0 <= RDM_TIME)
    /\ hpc' = IF now - t0 <= RDM_TIME
                THEN (IF ~pressed THEN "h448" ELSE "h444")
                ELSE "h454"
    /\ UNCHANGED <<now, pressed, mode, regled, t0, t1, depth, g_t0, edges, writes>>
    /\ UNCHANGED lvars

\* lines 444-446: while time.time() - t0 <= ORD_TIME: if not button.is_pressed:
H444 ==
    /\ hpc = "h444"
    /\ seen' = (seen \/ now - t0 <= ORD_TIME)
    /\ hpc' = IF now - t0 <= ORD_TIME
                THEN (IF ~pressed THEN "h448" ELSE "h444")
                ELSE "h454"
    /\ UNCHANGED <<now, pressed, mode, regled, t0, t1, depth, g_t0, edges, writes>>
    /\ UNCHANGED lvars

\* H448 with the test of line 448 inverted.
H448_Inverted ==
    /\ hpc = "h448"
    /\ IF mode = MS_MODE
         THEN WriteMode(ORD_MODE, "h451") /\ UNCHANGED <<t0, t1, depth>>
         ELSE Return /\ UNCHANGED <<mode, writes>>
    /\ UNCHANGED <<now, pressed, regled, seen, g_t0, edges>>
    /\ UNCHANGED lvars

\* lines 448-452: if mode != MS_MODE: print; mode = MS_MODE; (regled.off()); return
H448 ==
    /\ hpc = "h448"
    /\ IF mode /= MS_MODE
         THEN WriteMode(MS_MODE, "h451") /\ UNCHANGED <<t0, t1, depth>>
         ELSE Return /\ UNCHANGED <<mode, writes>>
    /\ UNCHANGED <<now, pressed, regled, seen, g_t0, edges>>
    /\ UNCHANGED lvars

\* line 451: regled.off(); line 452: return
H451 ==
    /\ hpc = "h451"
    /\ regled' = "off"
    /\ Return
    /\ UNCHANGED <<now, pressed, mode, seen, g_t0, edges, writes>>
    /\ UNCHANGED lvars

\* lines 454-458: if mode != ORD_MODE: print; mode = ORD_MODE; (regled.blink()); return
H454 ==
    /\ hpc = "h454"
    /\ IF mode /= ORD_MODE
         THEN WriteMode(ORD_MODE, "h457") /\ UNCHANGED <<t0, t1, depth>>
         ELSE Return /\ UNCHANGED <<mode, writes>>
    /\ UNCHANGED <<now, pressed, regled, seen, g_t0, edges>>
    /\ UNCHANGED lvars

\* H457 with the indicator switched on instead of blinking.
H457_On ==
    /\ hpc = "h457"
    /\ regled' = "on"
    /\ Return
    /\ UNCHANGED <<now, pressed, mode, seen, g_t0, edges, writes>>
    /\ UNCHANGED lvars

\* line 457: regled.blink(); line 458: return
H457 ==
    /\ hpc = "h457"
    /\ regled' = "blink"
    /\ Return
    /\ UNCHANGED <<now, pressed, mode, seen, g_t0, edges, writes>>
    /\ UNCHANGED lvars

get_mode ==
    \/ H407 \/ H415 \/ H418 \/ H422 \/ H425 \/ H428 \/ H431 \/ H433 \/ H434
    \/ H437 \/ H440 \/ H444 \/ H448 \/ H451 \/ H454 \/ H457

\* ------------------------------------------------------------ main thread
\* An exception that nothing catches ends the process (traceback), without
\* gpio.cleanup().
Raise(e) == rpc' = "exit" /\ exc' = e

\* buzz.stop(), buzz.start(DUTY_CYCLE), buzz.ChangeFrequency(f)
BuzzStop(b) == [b EXCEPT !.on = FALSE]
BuzzStart(b) == [b EXCEPT !.on = TRUE]
BuzzFreq(b, f) == [b EXCEPT !.freq = f]

\* The statements inside the try of sonic (lines 155-185), of run_mode (lines
\* 478-666), and the except block of run_mode (lines 669-684).
SonicTry == {"s157", "s170", "s171", "s174", "s177", "s180"}
RunTry == {"r481", "r498", "r503", "r509", "r514", "r518", "r524", "r526", "r528",
           "r531", "r562", "r565", "r568", "r574", "r617", "r636", "r640", "r642",
           "r644", "r646", "r648", "r651", "r654", "r657", "r658", "r659", "r660",
           "r663"}
RunExcept == {"x672", "x675", "x676", "x677", "x678", "x681", "x684"}

\* main, lines 704-710: mode = MS_MODE; button.when_pressed = get_mode; run_mode()
M704 ==
    /\ rpc = "m704"
    /\ mode' = MS_MODE
    /\ rpc' = "r481"
    /\ UNCHANGED <<now, regled, exc, cleaned, nint, nmode, bound, old_mode, monitor,
                   record, filename, data, too_close, dist_t0, rgb_t0, beep_t0,
                   pot_percent, freq, dtime, distance, s_old_mode, pulse_start,
                   pulse_end, pulse_duration, echo, rise_t, buzz, rgbled, disk,
                   sessno, sessfile, nrid, gvars>>

\* R481 putting the default mode back at the start of a session.
R481_WritesMode ==
    /\ rpc = "r481"
    /\ mode' = MS_MODE
    /\ old_mode' = MS_MODE
    /\ buzz' = BuzzStop(buzz)
    /\ dist_t0' = now
    /\ rgb_t0' = now
    /\ \E p \in PotPercents : pot_percent' = p
    /\ bound' = bound \cup {"old_mode"}
    /\ sessno' = sessno + 1
    /\ sessfile' = Append(sessfile, NoFile)
    /\ rpc' = "r498"
    /\ UNCHANGED <<now, regled, exc, cleaned, nint, nmode, monitor, record,
                   filename, data, too_close, beep_t0, freq, dtime, distance,
                   s_old_mode, pulse_start, pulse_end, pulse_duration, echo, rise_t,
                   rgbled, disk, nrid, gvars>>

\* run_mode, lines 481-495: old_mode = mode; buzz.stop(); dist_t0 = time.time();
\* rgb_t0 = dist_t0; pot_percent = round(pot.value * 100, 2); (R, G, B = get_color)
R481 ==
    /\ rpc = "r481"
    /\ old_mode' = mode
    /\ buzz' = BuzzStop(buzz)
    /\ dist_t0' = now
    /\ rgb_t0' = now
    /\ \E p \in PotPercents : pot_percent' = p
    /\ bound' = bound \cup {"old_mode"}
    /\ sessno' = sessno + 1
    /\ sessfile' = Append(sessfile, NoFile)
    /\ rpc' = "r498"
    /\ UNCHANGED <<now, mode, regled, exc, cleaned, nint, nmode, monitor, record,
                   filename, data, too_close, beep_t0, freq, dtime, distance,
                   s_old_mode, pulse_start, pulse_end, pulse_duration, echo, rise_t,
                   rgbled, disk, nrid, gvars>>

\* line 498: monitor, record = mode_settings(mode)
R498 ==
    /\ rpc = "r498"
    /\ monitor' = mode_settings(mode)[1]
    /\ record' = mode_settings(mode)[2]
    /\ bound' = bound \cup {"record"}
    /\ rpc' = "r503"
    /\ UNCHANGED <<now, mode, regled, exc, cleaned, nint, nmode, old_mode, filename,
                   data, too_close, dist_t0, rgb_t0, beep_t0, pot_percent, freq,
                   dtime, distance, s_old_mode, pulse_start, pulse_end,
                   pulse_duration, echo, rise_t, buzz, rgbled, disk, sessno,
                   sessfile, nrid, gvars>>

\* lines 501-506: filename = "//home//pi/Documents//data_" + time_string
R503 ==
    /\ rpc = "r503"
    /\ filename' = time_string(now)
    /\ sessfile' = [sessfile EXCEPT ![sessno] = time_string(now)]
    /\ bound' = bound \cup {"filename"}
    /\ rpc' = "r509"
    /\ UNCHANGED <<now, mode, regled, exc, cleaned, nint, nmode, old_mode, monitor,
                   record, data, too_close, dist_t0, rgb_t0, beep_t0, pot_percent,
                   freq, dtime, distance, s_old_mode, pulse_start, pulse_end,
                   pulse_duration, echo, rise_t, buzz, rgbled, disk, sessno, nrid,
                   gvars>>

\* lines 509-511: if record: header.to_csv(filename, mode="a", index = False)
R509 ==
    /\ rpc = "r509"
    /\ disk' = IF record THEN ToCsvHeader(disk, filename, DataFrame(COLUMNS)) ELSE disk
    /\ rpc' = "r514"
    /\ UNCHANGED <<now, mode, regled, exc, cleaned, nint, nmode, bound, old_mode,
                   monitor, record, filename, data, too_close, dist_t0, rgb_t0,
                   beep_t0, pot_percent, freq, dtime, distance, s_old_mode,
                   pulse_start, pulse_end, pulse_duration, echo, rise_t, buzz,
                   rgbled, sessno, sessfile, nrid, gvars>>

\* lines 514-515: if monitor: rgbled.color = (R, G, B)
R514 ==
    /\ rpc = "r514"
    /\ rgbled' = IF monitor THEN get_color(pot_percent) ELSE rgbled
    /\ rpc' = "r518"
    /\ UNCHANGED <<now, mode, regled, exc, cleaned, nint, nmode, bound, old_mode,
                   monitor, record, filename, data, too_close, dist_t0, rgb_t0,
                   beep_t0, pot_percent, freq, dtime, distance, s_old_mode,
                   pulse_start, pulse_end, pulse_duration, echo, rise_t, buzz, disk,
                   sessno, sessfile, nrid, gvars>>

\* lines 518-521: data = pd.DataFrame(columns=[...]); too_close = False
R518 ==
    /\ rpc = "r518"
    /\ data' = DataFrame(COLUMNS)
    /\ too_close' = FALSE
    /\ bound' = bound \cup {"data"}
    /\ rpc' = "r524"
    /\ UNCHANGED <<now, mode, regled, exc, cleaned, nint, nmode, old_mode, monitor,
                   record, filename, dist_t0, rgb_t0, beep_t0, pot_percent, freq,
                   dtime, distance, s_old_mode, pulse_start, pulse_end,
                   pulse_duration, echo, rise_t, buzz, rgbled, disk, sessno,
                   sessfile, nrid, gvars>>

\* line 524: while old_mode == mode:
R524 ==
    /\ rpc = "r524"
    /\ rpc' = IF old_mode = mode THEN "r526" ELSE "r654"
    /\ UNCHANGED <<now, mode, regled, exc, cleaned, nint, nmode, bound, old_mode,
                   monitor, record, filename, data, too_close, dist_t0, rgb_t0,
                   beep_t0, pot_percent, freq, dtime, distance, s_old_mode,
                   pulse_start, pulse_end, pulse_duration, echo, rise_t, buzz,
                   rgbled, disk, sessno, sessfile, nrid, gvars>>

\* R526 leaving the wait loop at once.
R526_NoWait ==
    /\ rpc = "r526"
    /\ rpc' = "r565"
    /\ UNCHANGED <<now, mode, regled, exc, cleaned, nint, nmode, bound, old_mode,
                   monitor, record, filename, data, too_close, dist_t0, rgb_t0,
                   beep_t0, pot_percent, freq, dtime, distance, s_old_mode,
                   pulse_start, pulse_end, pulse_duration, echo, rise_t, buzz,
                   rgbled, disk, sessno, sessfile, nrid, gvars>>

\* line 526: while time.time() - dist_t0 < SONIC_OFFSET:
R526 ==
    /\ rpc = "r526"
    /\ rpc' = IF now - dist_t0 < SONIC_OFFSET THEN "r528" ELSE "r565"
    /\ UNCHANGED <<now, mode, regled, exc, cleaned, nint, nmode, bound, old_mode,
                   monitor, record, filename, data, too_close, dist_t0, rgb_t0,
                   beep_t0, pot_percent, freq, dtime, distance, s_old_mode,
                   pulse_start, pulse_end, pulse_duration, echo, rise_t, buzz,
                   rgbled, disk, sessno, sessfile, nrid, gvars>>

\* line 528: if time.time() - rgb_t0 > POT_OFFSET:
R528 ==
    /\ rpc = "r528"
    /\ rpc' = IF now - rgb_t0 > POT_OFFSET THEN "r531" ELSE "r526"
    /\ UNCHANGED <<now, mode, regled, exc, cleaned, nint, nmode, bound, old_mode,
                   monitor, record, filename, data, too_close, dist_t0, rgb_t0,
                   beep_t0, pot_percent, freq, dtime, distance, s_old_mode,
                   pulse_start, pulse_end, pulse_duration, echo, rise_t, buzz,
                   rgbled, disk, sessno, sessfile, nrid, gvars>>

\* lines 531-559 for the reading p of the potentiometer:
\* pot_percent = round(pot.value * 100, 2); rgbtime = time.time();
\* R, G, B = get_color(pot_percent); rgbled.color = (R, G, B); (print if monitor);
\* new_data = {date_time, pot_percent, 'NaN'}; if record: data = pd.concat(...)
R531With(p) ==
    /\ rpc = "r531"
    /\ pot_percent' = p
    /\ rgbled' = get_color(p)
    /\ IF record
         THEN /\ data' = Concat(data,
                                [c \in Range(COLUMNS) |->
                                   IF c = "Date and Time" THEN Num(date_time_str(now))
                                   ELSE IF c = "Potentiometer %" THEN Num(p)
                                   ELSE NaN],
                                nrid + 1, sessno)
              /\ nrid' = nrid + 1
         ELSE data' = data /\ nrid' = nrid
    /\ rpc' = "r562"
    /\ UNCHANGED <<now, mode, regled, exc, cleaned, nint, nmode, bound, old_mode,
                   monitor, record, filename, too_close, dist_t0, rgb_t0, beep_t0,
                   freq, dtime, distance, s_old_mode, pulse_start, pulse_end,
                   pulse_duration, echo, rise_t, buzz, disk, sessno, sessfile,
                   gvars>>

\* lines 531-559
R531 == \E p \in PotPercents : R531With(p)

\* line 562: rgb_t0 = time.time()
R562 ==
    /\ rpc = "r562"
    /\ rgb_t0' = now
    /\ rpc' = "r526"
    /\ UNCHANGED <<now, mode, regled, exc, cleaned, nint, nmode, bound, old_mode,
                   monitor, record, filename, data, too_close, dist_t0, beep_t0,
                   pot_percent, freq, dtime, distance, s_old_mode, pulse_start,
                   pulse_end, pulse_duration, echo, rise_t, buzz, rgbled, disk,
                   sessno, sessfile, nrid, gvars>>

\* line 565: dtime, distance = sonic(); sonic, lines 152-153: distance = 0.0;
\* dtime = time.time()
R565 ==
    /\ rpc = "r565"
    /\ distance' = Num(0)
    /\ dtime' = now
    /\ rpc' = "s157"
    /\ UNCHANGED <<now, mode, regled, exc, cleaned, nint, nmode, bound, old_mode,
                   monitor, record, filename, data, too_close, dist_t0, rgb_t0,
                   beep_t0, pot_percent, freq, s_old_mode, pulse_start, pulse_end,
                   pulse_duration, echo, rise_t, buzz, rgbled, disk, sessno,
                   sessfile, nrid, gvars>>

\* sonic, lines 157-167: old_mode = mode; trigger pulse; pulse_start = 0.0;
\* pulse_end = 0.0; pulse_duration = -1.0
S157 ==
    /\ rpc = "s157"
    /\ s_old_mode' = mode
    /\ pulse_start' = 0
    /\ pulse_end' = 0
    /\ pulse_duration' = -1
    /\ rpc' = "s170"
    /\ UNCHANGED <<now, mode, regled, exc, cleaned, nint, nmode, bound, old_mode,
                   monitor, record, filename, data, too_close, dist_t0, rgb_t0,
                   beep_t0, pot_percent, freq, dtime, distance, echo, rise_t, buzz,
                   rgbled, disk, sessno, sessfile, nrid, gvars>>

\* line 170: while pulse_duration <= 0 and old_mode == mode:
S170 ==
    /\ rpc = "s170"
    /\ rpc' = IF pulse_duration <= 0 /\ s_old_mode = mode THEN "s171" ELSE "s180"
    /\ UNCHANGED <<now, mode, regled, exc, cleaned, nint, nmode, bound, old_mode,
                   monitor, record, filename, data, too_close, dist_t0, rgb_t0,
                   beep_t0, pot_percent, freq, dtime, distance, s_old_mode,
                   pulse_start, pulse_end, pulse_duration, echo, rise_t, buzz,
                   rgbled, disk, sessno, sessfile, nrid, gvars>>

\* S171 without the test of the mode.
S171_NoModeCheck ==
    /\ rpc = "s171"
    /\ IF echo = 0
         THEN pulse_start' = now /\ rpc' = "s171"
         ELSE pulse_start' = pulse_start /\ rpc' = "s174"
    /\ UNCHANGED <<now, mode, regled, exc, cleaned, nint, nmode, bound, old_mode,
                   monitor, record, filename, data, too_close, dist_t0, rgb_t0,
                   beep_t0, pot_percent, freq, dtime, distance, s_old_mode,
                   pulse_end, pulse_duration, echo, rise_t, buzz, rgbled, disk,
                   sessno, sessfile, nrid, gvars>>

\* lines 171-172: while gpio.input(ECHO)==0 and old_mode == mode: pulse_start = time.time()
S171 ==
    /\ rpc = "s171"
    /\ IF echo = 0 /\ s_old_mode = mode
         THEN pulse_start' = now /\ rpc' = "s171"
         ELSE pulse_start' = pulse_start /\ rpc' = "s174"
    /\ UNCHANGED <<now, mode, regled, exc, cleaned, nint, nmode, bound, old_mode,
                   monitor, record, filename, data, too_close, dist_t0, rgb_t0,
                   beep_t0, pot_percent, freq, dtime, distance, s_old_mode,
                   pulse_end, pulse_duration, echo, rise_t, buzz, rgbled, disk,
                   sessno, sessfile, nrid, gvars>>

\* lines 174-175: while gpio.input(ECHO)==1 and old_mode == mode: pulse_end = time.time()
S174 ==
    /\ rpc = "s174"
    /\ IF echo = 1 /\ s_old_mode = mode
         THEN pulse_end' = now /\ rpc' = "s174"
         ELSE pulse_end' = pulse_end /\ rpc' = "s177"
    /\ UNCHANGED <<now, mode, regled, exc, cleaned, nint, nmode, bound, old_mode,
                   monitor, record, filename, data, too_close, dist_t0, rgb_t0,
                   beep_t0, pot_percent, freq, dtime, distance, s_old_mode,
                   pulse_start, pulse_duration, echo, rise_t, buzz, rgbled, disk,
                   sessno, sessfile, nrid, gvars>>

\* line 177: pulse_duration = (pulse_end - pulse_start)*1000000
S177 ==
    /\ rpc = "s177"
    /\ pulse_duration' = pulse_end - pulse_start
    /\ rpc' = "s170"
    /\ UNCHANGED <<now, mode, regled, exc, cleaned, nint, nmode, bound, old_mode,
                   monitor, record, filename, data, too_close, dist_t0, rgb_t0,
                   beep_t0, pot_percent, freq, dtime, distance, s_old_mode,
                   pulse_start, pulse_end, echo, rise_t, buzz, rgbled, disk, sessno,
                   sessfile, nrid, gvars>>

\* lines 180-191: dtime = time.time(); distance = round(pulse_duration /
\* ULTRASONIC_CONVERSION, 2); return dtime, distance.  The locals of the call
\* (old_mode, pulse_start, pulse_end, pulse_duration) end with it.
S180 ==
    /\ rpc = "s180"
    /\ dtime' = now
    /\ distance' = Num(RoundDiv(pulse_duration * 100, ULTRASONIC_CONVERSION))
    /\ s_old_mode' = 0
    /\ pulse_start' = 0
    /\ pulse_end' = 0
    /\ pulse_duration' = 0
    /\ rpc' = "r568"
    /\ UNCHANGED <<now, mode, regled, exc, cleaned, nint, nmode, bound, old_mode,
                   monitor, record, filename, data, too_close, dist_t0, rgb_t0,
                   beep_t0, pot_percent, freq, echo, rise_t, buzz, rgbled, disk,
                   sessno, sessfile, nrid, gvars>>

\* lines 187-189: except KeyboardInterrupt: print(...); return dtime, distance.
\* The locals of the call end with it.
S188 ==
    /\ rpc = "s188"
    /\ s_old_mode' = 0
    /\ pulse_start' = 0
    /\ pulse_end' = 0
    /\ pulse_duration' = 0
    /\ rpc' = "r568"
    /\ UNCHANGED <<now, mode, regled, exc, cleaned, nint, nmode, bound, old_mode,
                   monitor, record, filename, data, too_close, dist_t0, rgb_t0,
                   beep_t0, pot_percent, freq, dtime, distance, echo, rise_t, buzz,
                   rgbled, disk, sessno, sessfile, nrid, gvars>>

\* lines 568-571: freq = frequency(distance); if freq: freq = int(freq);
\* buzz.ChangeFrequency(freq)
R568 ==
    /\ rpc = "r568"
    /\ LET f == frequency(distance[1])
       IN  IF f /= None /\ f[1] /= 0
             THEN freq' = Num(f[1] \div 16) /\ buzz' = BuzzFreq(buzz, f[1] \div 16)
             ELSE freq' = f /\ buzz' = buzz
    /\ rpc' = "r574"
    /\ UNCHANGED <<now, mode, regled, exc, cleaned, nint, nmode, bound, old_mode,
                   monitor, record, filename, data, too_close, dist_t0, rgb_t0,
                   beep_t0, pot_percent, dtime, distance, s_old_mode, pulse_start,
                   pulse_end, pulse_duration, echo, rise_t, rgbled, disk, sessno,
                   sessfile, nrid, gvars>>

\* BeepBuzz without the stop of line 608 and the restart of lines 611-614.
BeepBuzz_NoStop(b, d, bt0, t, same) ==
    BuzzStart(BuzzFreq(BuzzStop(b), MAX_FREQ))

\* lines 596-614, the beep of a too-close object: the buzzer after the block,
\* and beep_t0 after it.
BeepBuzz(b, d, bt0, t, same) ==
    LET b1 == BuzzStart(BuzzFreq(BuzzStop(b), MAX_FREQ))
        b2 == IF d < MIN_DIST /\ same /\ t > bt0 + BEEP_INTERVAL THEN BuzzStop(b1) ELSE b1
    IN  IF d < MIN_DIST /\ same /\ t > bt0 + 2 * BEEP_INTERVAL
          THEN BuzzFreq(BuzzStart(b2), MAX_FREQ)
          ELSE b2
BeepT0(d, bt0, t, same) ==
    IF d < MIN_DIST /\ same /\ t > bt0 + 2 * BEEP_INTERVAL
      THEN bt0 + 2 * BEEP_INTERVAL
      ELSE bt0

\* lines 574-614: if monitor: stop the buzzer beyond MAX_DIST, start it in range,
\* arm the beep on the first too-close reading, beep on the following ones
R574 ==
    /\ rpc = "r574"
    /\ LET d == distance[1]
       IN  IF ~monitor
             THEN UNCHANGED <<buzz, too_close, beep_t0, bound>>
           ELSE IF d > MAX_DIST
             THEN /\ buzz' = BuzzStop(buzz)
                  /\ too_close' = FALSE
                  /\ UNCHANGED <<beep_t0, bound>>
           ELSE IF in_range(d)
             THEN /\ buzz' = BuzzStart(buzz)
                  /\ too_close' = FALSE
                  /\ UNCHANGED <<beep_t0, bound>>
           ELSE IF ~too_close
             THEN /\ too_close' = TRUE
                  /\ beep_t0' = dist_t0
                  /\ bound' = bound \cup {"beep_t0"}
                  /\ UNCHANGED buzz
           ELSE /\ buzz' = BeepBuzz(buzz, d, beep_t0, now, old_mode = mode)
                /\ beep_t0' = BeepT0(d, beep_t0, now, old_mode = mode)
                /\ UNCHANGED <<too_close, bound>>
    /\ rpc' = "r617"
    /\ UNCHANGED <<now, mode, regled, exc, cleaned, nint, nmode, old_mode, monitor,
                   record, filename, data, dist_t0, rgb_t0, pot_percent, freq,
                   dtime, distance, s_old_mode, pulse_start, pulse_end,
                   pulse_duration, echo, rise_t, rgbled, disk, sessno, sessfile,
                   nrid, gvars>>

\* R617 without the test of line 620.
R617_KeepFar ==
    /\ rpc = "r617"
    /\ distance' = distance
    /\ IF record
         THEN /\ data' = Concat(data,
                                [c \in Range(COLUMNS) |->
                                   IF c = "Date and Time" THEN Num(date_time_str(dtime))
                                   ELSE IF c = "Distance" THEN distance'
                                   ELSE NaN],
                                nrid + 1, sessno)
              /\ nrid' = nrid + 1
         ELSE data' = data /\ nrid' = nrid
    /\ rpc' = "r636"
    /\ UNCHANGED <<now, mode, regled, exc, cleaned, nint, nmode, bound, old_mode,
                   monitor, record, filename, too_close, dist_t0, rgb_t0, beep_t0,
                   pot_percent, freq, dtime, s_old_mode, pulse_start, pulse_end,
                   pulse_duration, echo, rise_t, buzz, rgbled, disk, sessno,
                   sessfile, gvars>>

\* R617 appending the range reading whether the session records or not.
R617_AlwaysAppend ==
    /\ rpc = "r617"
    /\ distance' = IF distance[1] > MAX_RECORDED_DIST THEN NaN ELSE distance
    /\ data' = Concat(data,
                      [c \in Range(COLUMNS) |->
                         IF c = "Date and Time" THEN Num(date_time_str(dtime))
                         ELSE IF c = "Distance" THEN distance'
                         ELSE NaN],
                      nrid + 1, sessno)
    /\ nrid' = nrid + 1
    /\ rpc' = "r636"
    /\ UNCHANGED <<now, mode, regled, exc, cleaned, nint, nmode, bound, old_mode,
                   monitor, record, filename, too_close, dist_t0, rgb_t0, beep_t0,
                   pot_percent, freq, dtime, s_old_mode, pulse_start, pulse_end,
                   pulse_duration, echo, rise_t, buzz, rgbled, disk, sessno,
                   sessfile, gvars>>

\* lines 617-633: date_time of dtime; if distance > 100: distance = 'NaN';
\* new_data = {date_time, 'NaN', distance}; if record: data = pd.concat(...);
\* (print if monitor)
R617 ==
    /\ rpc = "r617"
    /\ distance' = IF distance[1] > MAX_RECORDED_DIST THEN NaN ELSE distance
    /\ IF record
         THEN /\ data' = Concat(data,
                                [c \in Range(COLUMNS) |->
                                   IF c = "Date and Time" THEN Num(date_time_str(dtime))
                                   ELSE IF c = "Distance" THEN distance'
                                   ELSE NaN],
                                nrid + 1, sessno)
              /\ nrid' = nrid + 1
         ELSE data' = data /\ nrid' = nrid
    /\ rpc' = "r636"
    /\ UNCHANGED <<now, mode, regled, exc, cleaned, nint, nmode, bound, old_mode,
                   monitor, record, filename, too_close, dist_t0, rgb_t0, beep_t0,
                   pot_percent, freq, dtime, s_old_mode, pulse_start, pulse_end,
                   pulse_duration, echo, rise_t, buzz, rgbled, disk, sessno,
                   sessfile, gvars>>

\* The test of line 636 with >= for >.
BufferFull_AtSize(df) == Len(df.rows) >= BUFFER_SIZE

\* line 636: data.index.size > BUFFER_SIZE
BufferFull(df) == Len(df.rows) > BUFFER_SIZE

\* line 636: if data.index.size > BUFFER_SIZE:
R636 ==
    /\ rpc = "r636"
    /\ rpc' = IF BufferFull(data) THEN "r640" ELSE "r651"
    /\ UNCHANGED <<now, mode, regled, exc, cleaned, nint, nmode, bound, old_mode,
                   monitor, record, filename, data, too_close, dist_t0, rgb_t0,
                   beep_t0, pot_percent, freq, dtime, distance, s_old_mode,
                   pulse_start, pulse_end, pulse_duration, echo, rise_t, buzz,
                   rgbled, disk, sessno, sessfile, nrid, gvars>>

\* line 640: data = data[['Date and Time', 'Potentiometer %', 'Distance']]
R640 ==
    /\ rpc = "r640"
    /\ IF HasColumns(data, COLUMNS)
         THEN data' = Select(data, COLUMNS) /\ rpc' = "r642" /\ exc' = exc
         ELSE data' = data /\ Raise("KeyError")
    /\ UNCHANGED <<now, mode, regled, cleaned, nint, nmode, bound, old_mode,
                   monitor, record, filename, too_close, dist_t0, rgb_t0, beep_t0,
                   pot_percent, freq, dtime, distance, s_old_mode, pulse_start,
                   pulse_end, pulse_duration, echo, rise_t, buzz, rgbled, disk,
                   sessno, sessfile, nrid, gvars>>

\* line 642: data.sort_values(by=['Date and Time'], inplace=True)
R642 ==
    /\ rpc = "r642"
    /\ data' = SortValues(data, "Date and Time")
    /\ rpc' = "r644"
    /\ UNCHANGED <<now, mode, regled, exc, cleaned, nint, nmode, bound, old_mode,
                   monitor, record, filename, too_close, dist_t0, rgb_t0, beep_t0,
                   pot_percent, freq, dtime, distance, s_old_mode, pulse_start,
                   pulse_end, pulse_duration, echo, rise_t, buzz, rgbled, disk,
                   sessno, sessfile, nrid, gvars>>

\* line 644 ("Get rid of the first column"): data = data[data.columns[1:]]
R644 ==
    /\ rpc = "r644"
    /\ data' = DropFirstColumn(data)
    /\ rpc' = "r646"
    /\ UNCHANGED <<now, mode, regled, exc, cleaned, nint, nmode, bound, old_mode,
                   monitor, record, filename, too_close, dist_t0, rgb_t0, beep_t0,
                   pot_percent, freq, dtime, distance, s_old_mode, pulse_start,
                   pulse_end, pulse_duration, echo, rise_t, buzz, rgbled, disk,
                   sessno, sessfile, nrid, gvars>>

\* line 646: data.to_csv(filename, mode="a", index=False, header=False)
R646 ==
    /\ rpc = "r646"
    /\ disk' = ToCsv(disk, filename, data)
    /\ rpc' = "r648"
    /\ UNCHANGED <<now, mode, regled, exc, cleaned, nint, nmode, bound, old_mode,
                   monitor, record, filename, data, too_close, dist_t0, rgb_t0,
                   beep_t0, pot_percent, freq, dtime, distance, s_old_mode,
                   pulse_start, pulse_end, pulse_duration, echo, rise_t, buzz,
                   rgbled, sessno, sessfile, nrid, gvars>>

\* line 648: data = pd.DataFrame()
R648 ==
    /\ rpc = "r648"
    /\ data' = DataFrame(<<>>)
    /\ rpc' = "r651"
    /\ UNCHANGED <<now, mode, regled, exc, cleaned, nint, nmode, bound, old_mode,
                   monitor, record, filename, too_close, dist_t0, rgb_t0, beep_t0,
                   pot_percent, freq, dtime, distance, s_old_mode, pulse_start,
                   pulse_end, pulse_duration, echo, rise_t, buzz, rgbled, disk,
                   sessno, sessfile, nrid, gvars>>

\* line 651: dist_t0 = time.time()
R651 ==
    /\ rpc = "r651"
    /\ dist_t0' = now
    /\ rpc' = "r524"
    /\ UNCHANGED <<now, mode, regled, exc, cleaned, nint, nmode, bound, old_mode,
                   monitor, record, filename, data, too_close, rgb_t0, beep_t0,
                   pot_percent, freq, dtime, distance, s_old_mode, pulse_start,
                   pulse_end, pulse_duration, echo, rise_t, buzz, rgbled, disk,
                   sessno, sessfile, nrid, gvars>>

\* line 654: buzz.stop()
R654 ==
    /\ rpc = "r654"
    /\ buzz' = BuzzStop(buzz)
    /\ rpc' = "r657"
    /\ UNCHANGED <<now, mode, regled, exc, cleaned, nint, nmode, bound, old_mode,
                   monitor, record, filename, data, too_close, dist_t0, rgb_t0,
                   beep_t0, pot_percent, freq, dtime, distance, s_old_mode,
                   pulse_start, pulse_end, pulse_duration, echo, rise_t, rgbled,
                   disk, sessno, sessfile, nrid, gvars>>

\* line 657: data = data[['Date and Time', 'Potentiometer %', 'Distance']]
R657 ==
    /\ rpc = "r657"
    /\ IF HasColumns(data, COLUMNS)
         THEN data' = Select(data, COLUMNS) /\ rpc' = "r658" /\ exc' = exc
         ELSE data' = data /\ Raise("KeyError")
    /\ UNCHANGED <<now, mode, regled, cleaned, nint, nmode, bound, old_mode,
                   monitor, record, filename, too_close, dist_t0, rgb_t0, beep_t0,
                   pot_percent, freq, dtime, distance, s_old_mode, pulse_start,
                   pulse_end, pulse_duration, echo, rise_t, buzz, rgbled, disk,
                   sessno, sessfile, nrid, gvars>>

\* line 658: data.sort_values(by=['Date and Time'], inplace=True)
R658 ==
    /\ rpc = "r658"
    /\ data' = SortValues(data, "Date and Time")
    /\ rpc' = "r659"
    /\ UNCHANGED <<now, mode, regled, exc, cleaned, nint, nmode, bound, old_mode,
                   monitor, record, filename, too_close, dist_t0, rgb_t0, beep_t0,
                   pot_percent, freq, dtime, distance, s_old_mode, pulse_start,
                   pulse_end, pulse_duration, echo, rise_t, buzz, rgbled, disk,
                   sessno, sessfile, nrid, gvars>>

\* line 659: data = data.reset_index()
R659 ==
    /\ rpc = "r659"
    /\ data' = ResetIndex(data)
    /\ rpc' = "r660"
    /\ UNCHANGED <<now, mode, regled, exc, cleaned, nint, nmode, bound, old_mode,
                   monitor, record, filename, too_close, dist_t0, rgb_t0, beep_t0,
                   pot_percent, freq, dtime, distance, s_old_mode, pulse_start,
                   pulse_end, pulse_duration, echo, rise_t, buzz, rgbled, disk,
                   sessno, sessfile, nrid, gvars>>

\* line 660: data = data[data.columns[1:]]
R660 ==
    /\ rpc = "r660"
    /\ data' = DropFirstColumn(data)
    /\ rpc' = "r663"
    /\ UNCHANGED <<now, mode, regled, exc, cleaned, nint, nmode, bound, old_mode,
                   monitor, record, filename, too_close, dist_t0, rgb_t0, beep_t0,
                   pot_percent, freq, dtime, distance, s_old_mode, pulse_start,
                   pulse_end, pulse_duration, echo, rise_t, buzz, rgbled, disk,
                   sessno, sessfile, nrid, gvars>>

\* lines 663-666: if record: data.to_csv(filename, mode="a", index=False,
\* header=False); then the next session (line 479)
R663 ==
    /\ rpc = "r663"
    /\ disk' = IF record THEN ToCsv(disk, filename, data) ELSE disk
    /\ rpc' = "r481"
    /\ UNCHANGED <<now, mode, regled, exc, cleaned, nint, nmode, bound, old_mode,
                   monitor, record, filename, data, too_close, dist_t0, rgb_t0,
                   beep_t0, pot_percent, freq, dtime, distance, s_old_mode,
                   pulse_start, pulse_end, pulse_duration, echo, rise_t, buzz,
                   rgbled, sessno, sessfile, nrid, gvars>>

\* run_mode, lines 669-672: except KeyboardInterrupt: print(...); if record:
\* (record is a local: reading it before line 498 has run raises UnboundLocalError)
X672 ==
    /\ rpc = "x672"
    /\ IF "record" \notin bound
         THEN Raise("UnboundLocalError")
         ELSE rpc' = (IF record THEN "x675" ELSE "x684") /\ exc' = exc
    /\ UNCHANGED <<now, mode, regled, cleaned, nint, nmode, bound, old_mode,
                   monitor, record, filename, data, too_close, dist_t0, rgb_t0,
                   beep_t0, pot_percent, freq, dtime, distance, s_old_mode,
                   pulse_start, pulse_end, pulse_duration, echo, rise_t, buzz,
                   rgbled, disk, sessno, sessfile, nrid, gvars>>

\* line 675: data = data[['Date and Time', 'Potentiometer %', 'Distance']]
X675 ==
    /\ rpc = "x675"
    /\ IF "data" \notin bound
         THEN data' = data /\ Raise("UnboundLocalError")
         ELSE IF HasColumns(data, COLUMNS)
                THEN data' = Select(data, COLUMNS) /\ rpc' = "x676" /\ exc' = exc
                ELSE data' = data /\ Raise("KeyError")
    /\ UNCHANGED <<now, mode, regled, cleaned, nint, nmode, bound, old_mode,
                   monitor, record, filename, too_close, dist_t0, rgb_t0, beep_t0,
                   pot_percent, freq, dtime, distance, s_old_mode, pulse_start,
                   pulse_end, pulse_duration, echo, rise_t, buzz, rgbled, disk,
                   sessno, sessfile, nrid, gvars>>

\* line 676: data.sort_values(by=['Date and Time'], inplace=True)
X676 ==
    /\ rpc = "x676"
    /\ data' = SortValues(data, "Date and Time")
    /\ rpc' = "x677"
    /\ UNCHANGED <<now, mode, regled, exc, cleaned, nint, nmode, bound, old_mode,
                   monitor, record, filename, too_close, dist_t0, rgb_t0, beep_t0,
                   pot_percent, freq, dtime, distance, s_old_mode, pulse_start,
                   pulse_end, pulse_duration, echo, rise_t, buzz, rgbled, disk,
                   sessno, sessfile, nrid, gvars>>

\* line 677: data = data.reset_index()
X677 ==
    /\ rpc = "x677"
    /\ data' = ResetIndex(data)
    /\ rpc' = "x678"
    /\ UNCHANGED <<now, mode, regled, exc, cleaned, nint, nmode, bound, old_mode,
                   monitor, record, filename, too_close, dist_t0, rgb_t0, beep_t0,
                   pot_percent, freq, dtime, distance, s_old_mode, pulse_start,
                   pulse_end, pulse_duration, echo, rise_t, buzz, rgbled, disk,
                   sessno, sessfile, nrid, gvars>>

\* line 678: data = data[data.columns[1:]]
X678 ==
    /\ rpc = "x678"
    /\ data' = DropFirstColumn(data)
    /\ rpc' = "x681"
    /\ UNCHANGED <<now, mode, regled, exc, cleaned, nint, nmode, bound, old_mode,
                   monitor, record, filename, too_close, dist_t0, rgb_t0, beep_t0,
                   pot_percent, freq, dtime, distance, s_old_mode, pulse_start,
                   pulse_end, pulse_duration, echo, rise_t, buzz, rgbled, disk,
                   sessno, sessfile, nrid, gvars>>

\* lines 681-682: data.to_csv(filename, mode="a", index=False, header=False)
X681 ==
    /\ rpc = "x681"
    /\ disk' = ToCsv(disk, filename, data)
    /\ rpc' = "x684"
    /\ UNCHANGED <<now, mode, regled, exc, cleaned, nint, nmode, bound, old_mode,
                   monitor, record, filename, data, too_close, dist_t0, rgb_t0,
                   beep_t0, pot_percent, freq, dtime, distance, s_old_mode,
                   pulse_start, pulse_end, pulse_duration, echo, rise_t, buzz,
                   rgbled, sessno, sessfile, nrid, gvars>>

\* line 684: return; main has nothing after run_mode() (line 710): the process
\* ends, gpio.cleanup() not executed
X684 ==
    /\ rpc = "x684"
    /\ rpc' = "exit"
    /\ UNCHANGED <<now, mode, regled, exc, cleaned, nint, nmode, bound, old_mode,
                   monitor, record, filename, data, too_close, dist_t0, rgb_t0,
                   beep_t0, pot_percent, freq, dtime, distance, s_old_mode,
                   pulse_start, pulse_end, pulse_duration, echo, rise_t, buzz,
                   rgbled, disk, sessno, sessfile, nrid, gvars>>

\* main, lines 712-717: except KeyboardInterrupt: print(...); gpio.cleanup(); sys.exit(1)
M713 ==
    /\ rpc = "m713"
    /\ cleaned' = TRUE
    /\ exc' = "SystemExit"
    /\ rpc' = "exit"
    /\ UNCHANGED <<now, mode, regled, nint, nmode, bound, old_mode, monitor, record,
                   filename, data, too_close, dist_t0, rgb_t0, beep_t0, pot_percent,
                   freq, dtime, distance, s_old_mode, pulse_start, pulse_end,
                   pulse_duration, echo, rise_t, buzz, rgbled, disk, sessno,
                   sessfile, nrid, gvars>>

run_mode ==
    \/ R481 \/ R498 \/ R503 \/ R509 \/ R514 \/ R518 \/ R524 \/ R526 \/ R528 \/ R531
    \/ R562 \/ R565 \/ R568 \/ R574 \/ R617 \/ R636 \/ R640 \/ R642 \/ R644 \/ R646
    \/ R648 \/ R651 \/ R654 \/ R657 \/ R658 \/ R659 \/ R660 \/ R663
    \/ X672 \/ X675 \/ X676 \/ X677 \/ X678 \/ X681 \/ X684

sonic == S157 \/ S170 \/ S171 \/ S174 \/ S177 \/ S180 \/ S188

main == M704 \/ M713

\* ------------------------------------------------------------ environment of the main thread

\* The operator's interrupt: KeyboardInterrupt is raised in the main thread at
\* the statement it is executing.  Inside the try of sonic it is caught at line 187.
InterruptSonic ==
    /\ rpc \in SonicTry
    /\ nint < MaxInterrupts
    /\ nint' = nint + 1
    /\ rpc' = "s188"
    /\ UNCHANGED <<now, mode, regled, exc, cleaned, nmode, bound, old_mode, monitor,
                   record, filename, data, too_close, dist_t0, rgb_t0, beep_t0,
                   pot_percent, freq, dtime, distance, s_old_mode, pulse_start,
                   pulse_end, pulse_duration, echo, rise_t, buzz, rgbled, disk,
                   sessno, sessfile, nrid, gvars>>

\* Inside the try of run_mode (the call of sonic included) it is caught at line 669.
InterruptRun ==
    /\ rpc \in RunTry \cup {"s188"}
    /\ nint < MaxInterrupts
    /\ nint' = nint + 1
    /\ rpc' = "x672"
    /\ UNCHANGED <<now, mode, regled, exc, cleaned, nmode, bound, old_mode, monitor,
                   record, filename, data, too_close, dist_t0, rgb_t0, beep_t0,
                   pot_percent, freq, dtime, distance, s_old_mode, pulse_start,
                   pulse_end, pulse_duration, echo, rise_t, buzz, rgbled, disk,
                   sessno, sessfile, nrid, gvars>>

\* Inside the except block of run_mode, and in main outside run_mode, it is
\* caught at line 712.
InterruptMain ==
    /\ rpc \in RunExcept \cup {"m704"}
    /\ nint < MaxInterrupts
    /\ nint' = nint + 1
    /\ rpc' = "m713"
    /\ UNCHANGED <<now, mode, regled, exc, cleaned, nmode, bound, old_mode, monitor,
                   record, filename, data, too_close, dist_t0, rgb_t0, beep_t0,
                   pot_percent, freq, dtime, distance, s_old_mode, pulse_start,
                   pulse_end, pulse_duration, echo, rise_t, buzz, rgbled, disk,
                   sessno, sessfile, nrid, gvars>>

Interrupt == InterruptSonic \/ InterruptRun \/ InterruptMain

\* get_mode, seen from the main thread: one of its mode-change blocks (lines
\* 426-428, 438-440, 449-451, 455-457) assigns another mode and sets the indicator, while the main thread is in the
\* try block of run_mode or in sonic (nothing reads mode after that).
ModeWrite(m) ==
    /\ rpc \in RunTry \cup SonicTry \cup {"s188"}
    /\ nmode < MaxModeWrites
    /\ m /= mode
    /\ mode' = m
    /\ regled' = Indicator(m)
    /\ nmode' = nmode + 1
    /\ UNCHANGED <<now, rpc, exc, cleaned, nint, bound, old_mode, monitor, record,
                   filename, data, too_close, dist_t0, rgb_t0, beep_t0, pot_percent,
                   freq, dtime, distance, s_old_mode, pulse_start, pulse_end,
                   pulse_duration, echo, rise_t, buzz, rgbled, disk, sessno,
                   sessfile, nrid, gvars>>

\* The clock advances to the next multiple of TickUs.  The main thread spends its
\* time in the busy-wait loops of lines 526-528, 171 and 174; its other statements
\* take no time at the scale of TickUs.
TickL ==
    /\ rpc \in {"r526", "r528", "s171", "s174"}
    /\ NextTick <= StartUs + MaxLoopTime
    /\ now' = NextTick
    /\ UNCHANGED <<mode, regled, gvars, lvars>>

\* The echo line rises (the sensor answers the trigger pulse of line 160)
\* while line 171 waits for it.  The loop of line 171 polls faster than the line
\* changes: it has read the clock at the present instant.
EchoRise ==
    /\ rpc = "s171"
    /\ echo = 0
    /\ pulse_start = now
    /\ echo' = 1
    /\ rise_t' = now
    /\ UNCHANGED <<now, mode, regled, rpc, exc, cleaned, nint, nmode, bound,
                   old_mode, monitor, record, filename, data, too_close, dist_t0,
                   rgb_t0, beep_t0, pot_percent, freq, dtime, distance, s_old_mode,
                   pulse_start, pulse_end, pulse_duration, buzz, rgbled, disk,
                   sessno, sessfile, nrid, gvars>>

\* The echo line stays high for len microseconds.
EchoHigh(len) ==
    /\ rpc = "s174"
    /\ echo = 1
    /\ rise_t = now
    /\ now' = now + len
    /\ UNCHANGED <<mode, regled, gvars, lvars>>

\* The echo line falls while line 174 waits for it, after a pulse of positive
\* width that the loop of line 174 has polled to its end.
EchoFall ==
    /\ rpc = "s174"
    /\ echo = 1
    /\ rise_t < now
    /\ pulse_end = now
    /\ echo' = 0
    /\ rise_t' = -1
    /\ UNCHANGED <<now, mode, regled, rpc, exc, cleaned, nint, nmode, bound,
                   old_mode, monitor, record, filename, data, too_close, dist_t0,
                   rgb_t0, beep_t0, pot_percent, freq, dtime, distance, s_old_mode,
                   pulse_start, pulse_end, pulse_duration, buzz, rgbled, disk,
                   sessno, sessfile, nrid, gvars>>

\* ------------------------------------------------------------ the gesture model
InitG ==
    /\ now = StartUs
    /\ pressed = FALSE
    /\ mode = MS_MODE
    /\ regled = "off"
    /\ hpc = "idle"
    /\ t0 = -1
    /\ t1 = -1
    /\ depth = 0
    /\ seen = TRUE
    /\ g_t0 = -1
    /\ edges = <<>>
    /\ writes = <<>>

NextG == Press \/ Release \/ Tick \/ get_mode


\* ------------------------------------------------------------ the loop model
InitL ==
    /\ rpc = "m704"
    /\ exc = "none"
    /\ cleaned = FALSE
    /\ nint = 0
    /\ nmode = 0
    /\ bound = {}
    /\ old_mode = 0
    /\ monitor = FALSE
    /\ record = FALSE
    /\ filename = NoFile
    /\ data = DataFrame(<<>>)
    /\ too_close = FALSE
    /\ dist_t0 = 0
    /\ rgb_t0 = 0
    /\ beep_t0 = 0
    /\ pot_percent = 0
    /\ freq = None
    /\ dtime = 0
    /\ distance = Num(0)
    /\ s_old_mode = 0
    /\ pulse_start = 0
    /\ pulse_end = 0
    /\ pulse_duration = 0
    /\ echo = 0
    /\ rise_t = -1
    /\ buzz = [on |-> FALSE, freq |-> 1]
    /\ rgbled = <<0, 0, 0>>
    /\ disk = <<>>
    /\ sessno = 0
    /\ sessfile = <<>>
    /\ nrid = 0

Init == InitG /\ InitL

Next ==
    \/ main \/ run_mode \/ sonic
    \/ Interrupt
    \/ \E m \in Modes : ModeWrite(m)
    \/ TickL
    \/ EchoRise
    \/ \E len \in PulseUs : EchoHigh(len)
    \/ EchoFall

Spec == Init /\ [][Next]_vars

SpecG == Init /\ [][NextG]_vars

\* One pass of lines 526-565 seen from the buzzer: the wait loop and the call
\* of sonic take dt microseconds together and sonic returns the distance of an
\* echo pulse of p microseconds (lines 180-191).  The position samples taken
\* meanwhile (lines 531-562) do not touch the buzzer and are left out.
Measure(p, dt) ==
    /\ rpc = "r526"
    /\ dt >= SONIC_OFFSET
    /\ now + dt <= StartUs + MaxBeepTime
    /\ now' = now + dt
    /\ dtime' = now + dt
    /\ distance' = Num(RoundDiv(p * 100, ULTRASONIC_CONVERSION))
    /\ rpc' = "r568"
    /\ UNCHANGED <<mode, regled, exc, cleaned, nint, nmode, bound, old_mode,
                   monitor, record, filename, data, too_close, dist_t0, rgb_t0,
                   beep_t0, pot_percent, freq, s_old_mode, pulse_start, pulse_end,
                   pulse_duration, echo, rise_t, buzz, rgbled, disk, sessno,
                   sessfile, nrid, gvars>>

\* ------------------------------------------------------------ the buzzer model
\* The first session of the program (mode MS: monitoring, not recording) with
\* each range measurement taken in one step.
NextB ==
    \/ M704 \/ R481 \/ R498 \/ R503 \/ R509 \/ R514 \/ R518 \/ R524
    \/ \E p \in RangePulseUs : \E dt \in RangeGapUs : Measure(p, dt)
    \/ R568 \/ R574 \/ R617 \/ R636 \/ R651

SpecB == Init /\ [][NextB]_vars

\* ------------------------------------------------------------ frequency
\* The first range measurement of the program, for every length of the echo
\* pulse up to MaxFreqPulseUs, and the frequency lines 568-571 make of it.
NextF ==
    \/ M704 \/ R481 \/ R498 \/ R503 \/ R509 \/ R514 \/ R518 \/ R524
    \/ \E p \in 0..MaxFreqPulseUs : Measure(p, SONIC_OFFSET)
    \/ R568

SpecF == Init /\ [][NextF]_vars

\* ------------------------------------------------------------ color
\* The first position sample of the program, for every reading of the
\* potentiometer from 0 to MaxPercent.
NextC ==
    \/ M704 \/ R481 \/ R498 \/ R503 \/ R509 \/ R514 \/ R518 \/ R524
    \/ R526 \/ TickL \/ R528
    \/ \E p \in 0..MaxPercent : R531With(p)

SpecC == Init /\ [][NextC]_vars

\* ------------------------------------------------------------ one measurement
\* The statements of sonic's try block that return through line 191.
SonicRun == S157 \/ S170 \/ S171 \/ S174 \/ S177 \/ S180

\* The program up to the return of its first range measurement, with the echo
\* line and get_mode free to act or not; the main thread keeps running.
NextS ==
    \/ M704 \/ R481 \/ R498 \/ R503 \/ R509 \/ R514 \/ R518 \/ R524
    \/ R526 \/ TickL \/ R528 \/ R531 \/ R562 \/ R565
    \/ SonicRun
    \/ \E m \in Modes : ModeWrite(m)
    \/ EchoRise
    \/ \E len \in PulseUs : EchoHigh(len)
    \/ EchoFall

SpecS == Init /\ [][NextS]_vars /\ WF_vars(SonicRun)

\* ------------------------------------------------------------ far readings
\* The sessions of the program with each range measurement taken in one step,
\* for echo pulses on both sides of one meter, get_mode changing the mode, and
\* the flushes of lines 636-648 and 654-666.
NextD ==
    \/ M704 \/ R481 \/ R498 \/ R503 \/ R509 \/ R514 \/ R518 \/ R524
    \/ \E p \in FarPulseUs : Measure(p, FarGapUs)
    \/ R568 \/ R574 \/ R617 \/ R636 \/ R640 \/ R642 \/ R644 \/ R646 \/ R648
    \/ R651 \/ R654 \/ R657 \/ R658 \/ R659 \/ R660 \/ R663
    \/ \E m \in Modes : ModeWrite(m)

SpecD == Init /\ [][NextD]_vars

\* ------------------------------------------------------------ both threads
\* get_mode itself, called for the presses made once line 707 has registered
\* it, interleaved statement by statement with the main thread's sessions: their
\* start, the tests of the wait loop, and their end.
NextW ==
    \/ M704 \/ R481 \/ R498 \/ R503 \/ R509 \/ R514 \/ R518 \/ R524
    \/ R526 \/ R528
    \/ R654 \/ R657 \/ R658 \/ R659 \/ R660 \/ R663
    \/ (rpc /= "m704" /\ Press)
    \/ Release \/ get_mode
    \/ (now < StartUs + MaxBothTime /\ Tick)

SpecW == Init /\ [][NextW]_vars

\* ------------------------------------------------------------ the schedule
\* The statements of the main thread in a session that goes on.
SessionRun ==
    \/ M704 \/ R481 \/ R498 \/ R503 \/ R509 \/ R514 \/ R518 \/ R524
    \/ R526 \/ R528 \/ R531 \/ R562 \/ R565 \/ SonicRun
    \/ R568 \/ R574 \/ R617 \/ R636 \/ R651

\* The echo line stays high for one of the pulse lengths.
EchoPulse == \E len \in PulseUs : EchoHigh(len)

NextT == SessionRun \/ TickL \/ EchoRise \/ EchoPulse \/ EchoFall

\* One session whose mode does not change: the main thread keeps running, the
\* clock keeps advancing up to MaxLoopTime, and the sensor answers every trigger
\* with an echo pulse (range measurements return).
SpecT ==
    /\ Init /\ [][NextT]_vars
    /\ WF_vars(SessionRun) /\ WF_vars(TickL)
    /\ SF_vars(EchoRise) /\ SF_vars(EchoPulse) /\ SF_vars(EchoFall)

\* ------------------------------------------------------------ gestures
\* The callback has returned and had found the button pressed on entry.
Returned == hpc = "idle" /\ g_t0 >= 0

\* The gesture has a first release, a second press, a second release.
Released1 == Len(edges) >= 1
Pressed2 == Len(edges) >= 2
Released2 == Len(edges) >= 3

\* C1 as stated: a press released before t0+RDM_TIME and not pressed again
\* before t0+RDM_TIME leaves mode = MS_MODE when get_mode returns.
C1_SingleClickAsStated ==
    (/\ Returned
     /\ Released1 /\ edges[1] < g_t0 + RDM_TIME
     /\ Pressed2 => edges[2] >= g_t0 + RDM_TIME)
    => mode = MS_MODE

\* C1 amended: a press released before t0+RDM_TIME and not pressed again while
\* time.time() - t0 <= RDM_TIME (the instant t0+RDM_TIME included) leaves
\* mode = MS_MODE when get_mode returns.
C1_SingleClick ==
    (/\ Returned
     /\ Released1 /\ edges[1] < g_t0 + RDM_TIME
     /\ Pressed2 => edges[2] > g_t0 + RDM_TIME)
    => mode = MS_MODE

\* A single click made in ORD mode has returned and has changed the mode.
C1_Witness ==
    /\ Returned
    /\ Len(edges) = 1 /\ edges[1] < g_t0 + RDM_TIME
    /\ Len(writes) = 1 /\ writes[1].from = ORD_MODE
    /\ mode = MS_MODE

\* C2: release, second press and second release all before t0+RDM_TIME leave
\* mode = RDM_MODE when get_mode returns, whatever the mode was.
C2_DoubleClick ==
    (Returned /\ Released2 /\ edges[3] < g_t0 + RDM_TIME) => mode = RDM_MODE

\* A double click made in ORD mode has returned and has changed the mode.
C2_Witness ==
    /\ Returned
    /\ Released2 /\ edges[3] < g_t0 + RDM_TIME
    /\ Len(writes) = 1 /\ writes[1].from = ORD_MODE
    /\ mode = RDM_MODE

\* The button has stayed pressed from the entry of the callback until after
\* t0+ORD_TIME.
HeldPastOrd == g_t0 >= 0 /\ (Released1 => edges[1] > g_t0 + ORD_TIME)

\* C3: a press held until after t0+ORD_TIME leaves mode = ORD_MODE when
\* get_mode returns, and the callback changes the mode at no time at or before
\* t0+ORD_TIME.
C3_LongHold ==
    HeldPastOrd =>
        /\ \A i \in DOMAIN writes : writes[i].t > g_t0 + ORD_TIME
        /\ hpc = "idle" => mode = ORD_MODE

\* A long hold made in RDM mode has returned and has changed the mode.
C3_Witness ==
    /\ HeldPastOrd
    /\ hpc = "idle"
    /\ Len(writes) = 1 /\ writes[1].from = RDM_MODE
    /\ mode = ORD_MODE

\* C4: a press first released after t0+RDM_TIME and not after t0+ORD_TIME
\* leaves mode = MS_MODE when get_mode returns.
C4_MediumHold ==
    (/\ Returned
     /\ Released1 /\ edges[1] > g_t0 + RDM_TIME /\ edges[1] <= g_t0 + ORD_TIME)
    => mode = MS_MODE

\* A medium hold released exactly at t0+ORD_TIME in RDM mode has returned.
C4_Witness ==
    /\ Returned
    /\ Released1 /\ edges[1] = g_t0 + ORD_TIME
    /\ Len(writes) = 1 /\ writes[1].from = RDM_MODE
    /\ mode = MS_MODE

\* C5: every mode-change block get_mode executes (mode line, assignment,
\* indicator) changes the mode: the mode it assigns differs from the active one.
C5_NoSameModeEvent ==
    \A i \in DOMAIN writes : writes[i].from /= writes[i].to

\* C13: the status indicator follows the mode.  Whenever get_mode is not
\* running, the indicator is off in MS mode, on in RDM mode and blinking in ORD
\* mode; and the indicator changes only in the indicator statement of a
\* mode-change block of get_mode (lines 428, 433, 440, 451, 457).
IndicatorStatements == {"h428", "h433", "h440", "h451", "h457"}
C13_IndicatorFollowsMode ==
    /\ [](hpc = "idle" => regled = Indicator(mode))
    /\ [][regled' /= regled => hpc \in IndicatorStatements]_vars
C13_Witness ==
    /\ hpc = "idle"
    /\ Len(writes) >= 1
    /\ mode = ORD_MODE
    /\ regled = "blink"

\* The press that started the call of get_mode now running: the press of the
\* callback for the outermost call, the second press of the call before for a
\* nested one (every restart consumes one release and one press).
CallPress == IF depth = 0 THEN g_t0 ELSE edges[2 * depth]

\* The button has stayed pressed from CallPress until after CallPress+ORD_TIME.
CallHeldPastOrd ==
    Len(edges) > 2 * depth => edges[2 * depth + 1] > CallPress + ORD_TIME

\* After CallPress: release, press and release, all while
\* time.time() - CallPress <= RDM_TIME.
CallDoubleClick ==
    Len(edges) >= 2 * depth + 3 /\ edges[2 * depth + 3] <= CallPress + RDM_TIME

\* A nested call of get_mode returns (and with it every caller, line 435).
RestartReturns == depth >= 1 /\ hpc /= "idle" /\ hpc' = "idle"

\* C19 as stated: after a restart (second press still held at t0+RDM_TIME) the
\* nested call runs with t0 = t1, and the mode when the handler returns is
\* ORD_MODE if that press is held past t1+ORD_TIME and MS_MODE otherwise, for
\* every continuation of button events.
C19_RestartAsStated ==
    [][RestartReturns =>
          /\ t0 = CallPress
          /\ mode' = IF hpc /= "h407" /\ CallHeldPastOrd THEN ORD_MODE ELSE MS_MODE]_vars

\* C19 amended: after a restart the nested call runs with t0 = t1 and classifies
\* the gesture that starts with the second press: ORD_MODE if the press is held
\* past t1+ORD_TIME, RDM_MODE if it is released, pressed and released again
\* while time.time() - t1 <= RDM_TIME, MS_MODE otherwise.
C19_Restart ==
    [][RestartReturns =>
          /\ t0 = CallPress
          /\ mode' = IF hpc /= "h407" /\ CallHeldPastOrd THEN ORD_MODE
                     ELSE IF CallDoubleClick THEN RDM_MODE
                     ELSE MS_MODE]_vars

\* A restart whose nested call has seen a double click and has returned in RDM
\* mode.
C19_Witness ==
    /\ Returned
    /\ Len(edges) >= 5
    /\ edges[2] <= g_t0 + RDM_TIME /\ edges[3] > g_t0 + RDM_TIME
    /\ edges[5] <= edges[2] + RDM_TIME
    /\ Len(writes) = 2 /\ writes[1].to = MS_MODE /\ writes[2].to = RDM_MODE
    /\ mode = RDM_MODE

\* C25: one mode change per gesture: between the invocation of get_mode and its
\* return, nested re-evaluation included, the mode is written at most once.
C25_OneWritePerGesture ==
    Len(writes) <= 1

\* The gesture model with a handler thread that keeps running and a clock that
\* keeps advancing up to MaxTime.
SpecGF == Init /\ [][NextG]_vars /\ WF_vars(get_mode) /\ WF_vars(Tick)

\* The clock of the gesture model has reached its end.
GClockStopped == now \div TickUs >= (StartUs + MaxTime) \div TickUs

C6_RestartNeverFails ==
    nint = 0 => rpc /= "exit"

\* C7: no reading that was buffered in one session is written to the file of
\* another session: every data line on storage is in the file of the session
\* that buffered it.
C7_SessionIsolation ==
    \A i \in DOMAIN disk :
        ~disk[i].hdr => disk[i].file = sessfile[disk[i].sess]

\* C8: the buffer is checked after each append, so it never holds more than
\* BUFFER_SIZE + 1 readings.
C8_BufferBounded ==
    Len(data.rows) <= BUFFER_SIZE + 1

\* C9: when the process has ended after an operator interrupt, gpio.cleanup()
\* has been executed.
C9_CleanupBeforeExit ==
    (rpc = "exit" /\ nint > 0) => cleaned

\* C10: when the process has stopped after an operator interrupt, every reading
\* that was appended to a buffer is on storage.
C10_NoReadingLost ==
    (rpc = "exit" /\ nint > 0) =>
        \A k \in 1..nrid : \E i \in DOMAIN disk : ~disk[i].hdr /\ disk[i].rid = k

\* C11: every data row written to a session file carries the reading's
\* timestamp: the line has the column 'Date and Time'.
C11_RowsCarryTimestamp ==
    \A i \in DOMAIN disk :
        ~disk[i].hdr => "Date and Time" \in Range(disk[i].cols)

\* C12: a session file receives the header row exactly once: no two header
\* lines on storage are in the same file.
C12_OneHeaderPerFile ==
    \A i, j \in DOMAIN disk :
        (disk[i].hdr /\ disk[j].hdr /\ disk[i].file = disk[j].file) => i = j

\* C14: during a session that does not monitor, a position sample (lines
\* 531-559) leaves the color LED as it is.
C14_NoColorWithoutMonitor ==
    [][(rpc = "r531" /\ ~monitor) => rgbled' = rgbled]_vars

\* C15: no persistence without recording.  While a session runs with record
\* false (from the loop of line 524 to the end of the session) its buffer is
\* empty, and no step taken while record is false writes to storage.
SessionBody ==
    (RunTry \ {"r481", "r498", "r503", "r509", "r514", "r518"}) \cup SonicTry \cup {"s188"}
C15_NoPersistenceWithoutRecord ==
    /\ []((~record /\ rpc \in SessionBody) => data.rows = <<>>)
    /\ [][~record => disk' = disk]_vars
C15_Witness ==
    /\ rpc = "r663"
    /\ old_mode = MS_MODE
    /\ ~record
    /\ dtime > StartUs
    /\ data.rows = <<>>
    /\ disk = <<>>

\* ------------------------------------------------------------ claims: buzzer
\* The reading of the present iteration is below MIN_DIST in a monitoring session.
TooCloseReading == monitor /\ distance[1] < MIN_DIST

\* Time since the beep timer.
BeepElapsed == now - beep_t0

\* C16 as stated: at the end of every iteration whose reading is below
\* MIN_DIST the buzzer is at MAX_FREQ, on in the first BEEP_INTERVAL of the
\* period that starts at the beep timer and off in the second.
C16_BeepAsStated ==
    (rpc = "r617" /\ TooCloseReading) =>
        /\ buzz.freq = MAX_FREQ
        /\ (0 < BeepElapsed /\ BeepElapsed < BEEP_INTERVAL) => buzz.on
        /\ (BEEP_INTERVAL < BeepElapsed /\ BeepElapsed < 2 * BEEP_INTERVAL) => ~buzz.on

\* C16: the buzzer block of an iteration whose reading is below MIN_DIST
\* (mode unchanged).  On the first such reading it arms the beep: the beep
\* timer takes the value of the range timer and the buzzer stays as it was.
\* On each following one it sets MAX_FREQ and, with e the time since the beep
\* timer, leaves the buzzer on if e <= BEEP_INTERVAL, off if BEEP_INTERVAL < e
\* <= 2*BEEP_INTERVAL, and on with the beep timer moved on by 2*BEEP_INTERVAL
\* if e > 2*BEEP_INTERVAL.  A reading that is not below MIN_DIST disarms it.
C16_Beep ==
    [][ (rpc = "r574" /\ monitor /\ old_mode = mode) =>
          IF distance[1] >= MIN_DIST
            THEN ~too_close'
          ELSE IF ~too_close
            THEN too_close' /\ beep_t0' = dist_t0 /\ buzz' = buzz
          ELSE /\ too_close'
               /\ buzz'.freq = MAX_FREQ
               /\ BeepElapsed <= BEEP_INTERVAL => (buzz'.on /\ beep_t0' = beep_t0)
               /\ (BEEP_INTERVAL < BeepElapsed /\ BeepElapsed <= 2 * BEEP_INTERVAL)
                    => (~buzz'.on /\ beep_t0' = beep_t0)
               /\ BeepElapsed > 2 * BEEP_INTERVAL
                    => (buzz'.on /\ beep_t0' = beep_t0 + 2 * BEEP_INTERVAL) ]_vars
C16_Witness ==
    /\ rpc = "r617"
    /\ TooCloseReading
    /\ too_close
    /\ buzz.freq = MAX_FREQ
    /\ ~buzz.on
    /\ beep_t0 > StartUs
    /\ BeepElapsed > BEEP_INTERVAL

\* ------------------------------------------------------------ claims: frequency
\* 2000 - (d - 4)/16 * 1900 in 1/16 Hz, for d in 1/100 cm.
FreqLine(d) == 16 * 2000 - (d - 400) * 19

\* C17: frequency(d) is 2000 below 4 cm, None above 20 cm, and
\* 2000 - (d-4)/16*1900 from 4 to 20 cm, which is non-increasing in d, 2000 at
\* 4 cm and 100 at 20 cm; a result is assigned for every d.
C17_Frequency ==
    rpc = "r574" =>
        LET d == distance[1]
            f == frequency(d)
        IN  /\ f /= Unbound
            /\ d < 400 => f = Num(16 * 2000)
            /\ d > 2000 => f = None
            /\ (400 <= d /\ d <= 2000) =>
                 /\ f = Num(FreqLine(d))
                 /\ \A e \in d..2000 : frequency(e)[1] <= f[1]
                 /\ frequency(400) = Num(16 * 2000)
                 /\ frequency(2000) = Num(16 * 100)
C17_Witness ==
    /\ rpc = "r574"
    /\ distance = Num(2000)
    /\ frequency(distance[1]) = Num(16 * 100)
    /\ freq = Num(100)
    /\ buzz.freq = 100

SonicLoops == {"s170", "s171", "s174"}
InFlight == rpc \in SonicLoops \cup {"s177"}
ModeChanged == s_old_mode /= mode

\* C20: every busy-wait loop of sonic tests old_mode == mode on each spin: a
\* spin made after the mode has changed leaves its loop, and a measurement in
\* flight whose mode has changed (and stays changed) returns, whatever the echo
\* line does; without a change of mode the loop of line 171 is left only with
\* the echo line high, the loop of line 174 only with the echo line low, and
\* sonic returns through line 191 only with a pulse of positive width.
C20_AbortOnModeChange ==
    /\ [][(ModeChanged /\ rpc' /= rpc) =>
            /\ rpc = "s170" => rpc' = "s180"
            /\ rpc = "s171" => rpc' = "s174"
            /\ rpc = "s174" => rpc' = "s177"]_vars
    /\ [](InFlight /\ ModeChanged => <>(~InFlight \/ ~ModeChanged))
    /\ [][(~ModeChanged /\ rpc' /= rpc) =>
            /\ rpc = "s171" => echo = 1
            /\ rpc = "s174" => echo = 0
            /\ rpc = "s170" /\ rpc' = "s180" => pulse_duration > 0]_vars

\* A measurement abandoned with the echo line stuck high: sonic has returned
\* after a change of mode, the line has not fallen.
C20_Witness ==
    /\ rpc = "r568"
    /\ nmode = 1 /\ mode /= old_mode
    /\ echo = 1
    /\ distance[1] <= 0

\* The Distance cell of a buffered row or of a line on storage is absent or a
\* number of at most 100 cm.
DistanceCellOk(cells) ==
    "Distance" \in DOMAIN cells =>
        cells["Distance"] = NaN \/ cells["Distance"][1] <= MAX_RECORDED_DIST

\* C21: a range reading above 100 cm is appended to the buffer with its
\* Distance 'NaN': line 617 appends the reading it is given with Distance absent
\* when the measured distance is above 100 cm and unchanged otherwise, and no
\* buffered row and no line on storage has a numeric Distance above 100 cm.
C21_FarReadingsAbsent ==
    /\ [][(rpc = "r617" /\ rpc' = "r636" /\ record) =>
            /\ Len(data'.rows) = Len(data.rows) + 1
            /\ data'.rows[Len(data'.rows)].cells["Distance"] =
                  IF distance[1] > MAX_RECORDED_DIST THEN NaN ELSE distance]_vars
    /\ [](\A i \in DOMAIN data.rows : DistanceCellOk(data.rows[i].cells))
    /\ [](\A i \in DOMAIN disk : ~disk[i].hdr => DistanceCellOk(disk[i].cells))

\* Storage holds a line of a reading of 101 cm, its Distance absent, and a line
\* of a reading of exactly 100 cm, its Distance numeric.
C21_Witness ==
    /\ \E i \in DOMAIN disk :
          /\ ~disk[i].hdr /\ "Distance" \in DOMAIN disk[i].cells
          /\ disk[i].cells["Distance"] = NaN
    /\ \E i \in DOMAIN disk :
          /\ ~disk[i].hdr /\ "Distance" \in DOMAIN disk[i].cells
          /\ disk[i].cells["Distance"] = Num(MAX_RECORDED_DIST)

\* The mode-change blocks of get_mode (lines 425-427, 431-432, 437-439,
\* 448-450, 454-456).
ModeStatements == {"h425", "h431", "h437", "h448", "h454"}

\* What belongs to the session and its devices: buffer, filename, timers,
\* sensors, buzzer, color LED, storage.
SessionState ==
    <<data, filename, dist_t0, rgb_t0, beep_t0, pot_percent, dtime, distance,
      echo, buzz, rgbled, disk, old_mode, monitor, record, too_close>>

\* C22: single writer.  The mode changes only in a mode-change block of
\* get_mode and never in a step of the main thread, which leaves the status
\* indicator alone as well; and a step of get_mode changes nothing of the
\* session: buffer, filename, timers, sensors, buzzer, color LED, storage.
C22_SingleWriter ==
    /\ [][mode' /= mode => hpc \in ModeStatements /\ lvars' = lvars]_vars
    /\ [][lvars' /= lvars => mode' = mode /\ regled' = regled]_vars
    /\ [][gvars' /= gvars => SessionState' = SessionState]_vars

\* A session that monitors is running its wait loop in the mode it started
\* with while get_mode has changed the mode to ORD_MODE.
C22_Witness ==
    /\ rpc \in {"r526", "r528"}
    /\ old_mode = MS_MODE /\ monitor
    /\ hpc = "idle" /\ Len(writes) = 1
    /\ mode = ORD_MODE /\ regled = "blink"

\* The clock of the model has reached its end: the next multiple of TickUs is
\* beyond StartUs + MaxLoopTime.
ClockStopped == now \div TickUs >= (StartUs + MaxLoopTime) \div TickUs

\* C23: the sampling schedule of a session.  A range measurement starts (line
\* 565) only when at least SONIC_OFFSET has passed since the reset of dist_t0;
\* a position sample is taken (line 531) only when more than POT_OFFSET has
\* passed since the reset of rgb_t0, only out of the wait loop of line 526, and
\* nothing of it happens inside sonic; and while the mode stays and
\* measurements return, each reset of a timer is followed by the next sample
\* of its kind (unless the clock of the model ends before the timer expires).
C23_Schedule ==
    /\ [](rpc = "r565" => now - dist_t0 >= SONIC_OFFSET)
    /\ [](rpc = "r531" => now - rgb_t0 > POT_OFFSET)
    /\ [][(rpc' = "r531" /\ rpc /= "r531") => rpc = "r528"]_vars
    /\ [][(rpc \in SonicTry) =>
            (pot_percent' = pot_percent /\ rgb_t0' = rgb_t0 /\ rgbled' = rgbled)]_vars
    /\ (rpc = "r651") ~> (rpc = "r565" \/ (ClockStopped /\ now - dist_t0 < SONIC_OFFSET))
    /\ (rpc = "r562") ~> (rpc = "r531" \/ (ClockStopped /\ now - rgb_t0 <= POT_OFFSET))

\* A position sample is being taken after the first range measurement of the
\* session, more than POT_OFFSET after the start of the session.
C23_Witness ==
    /\ rpc = "r531"
    /\ dtime > StartUs /\ dist_t0 > StartUs
    /\ now - rgb_t0 > POT_OFFSET
    /\ now - dist_t0 < SONIC_OFFSET

\* C24: the settings of a session are those of its starting mode: once line
\* 498 has run, and until the session ends, (monitor, record) is
\* mode_settings(old_mode); and a header line is on storage for a session only
\* if its starting mode records.
C24_SettingsMatchMode ==
    /\ (rpc \in (RunTry \ {"r481", "r498"}) \cup SonicTry \cup {"s188"})
          => <<monitor, record>> = mode_settings(old_mode)
    /\ (rpc = "r514") => (mode_settings(old_mode)[2] \/
                          \A i \in DOMAIN disk : disk[i].hdr => disk[i].sess /= sessno)

\* C26: no duplicate rows: every reading appended to a buffer is written to
\* storage at most once: no two data lines on storage are of the same reading.
C26_NoDuplicateRows ==
    \A i, j \in DOMAIN disk :
        (~disk[i].hdr /\ ~disk[j].hdr /\ disk[i].rid = disk[j].rid) => i = j

\* A Distance cell is absent or a physical distance: above 0 and at most 100 cm.
DistancePhysical(cells) ==
    "Distance" \in DOMAIN cells =>
        \/ cells["Distance"] = NaN
        \/ /\ cells["Distance"][1] > 0
           /\ cells["Distance"][1] <= MAX_RECORDED_DIST

\* C28: recorded distances are physical.  Every numeric Distance in a buffered
\* row and in a line on storage lies in (0, 100] cm; a measurement that sonic()
\* abandons because the mode changed leaves no negative Distance.
C28_DistancesPhysical ==
    /\ \A i \in DOMAIN data.rows : DistancePhysical(data.rows[i].cells)
    /\ \A i \in DOMAIN disk : ~disk[i].hdr => DistancePhysical(disk[i].cells)

====
